---------------------------- MODULE Spec2Model ----------------------------
(***************************************************************************)
(* Breakout: the scene reducer of src/src/components/scene.js (level       *)
(* lifecycle, pause clock, level persistence, mount/unmount) and the       *)
(* Vector value type of src/src/game/vector.js.                            *)
(*                                                                         *)
(* Two specifications share the variables:                                 *)
(*   Spec     the scene component driven by timer, keyboard and resize;    *)
(*   VecSpec  Vector objects on a heap, one method call per step.          *)
(***************************************************************************)
EXTENDS Integers, Sequences, FiniteSets, TLC

VARIABLES
    \* ---- scene.js: the reducer state (getInitialState, lines 49-58)
    level,          \* state.level
    game,           \* state.game
    containerSize,  \* state.containerSize
    unitOnScreen,   \* the scale both projectors close over
    time,           \* state.time
    stopTime,       \* state.stopTime: <<>> is undefined, <<t>> a number
    movement,       \* state.movement
    \* ---- scene.js: the world around the reducer
    stored,         \* localStorage item 'level': <<>> is null, else a string
    now,            \* the value Date.now() returns
    phase,          \* "rendered" | "mounted" | "unmounted"
    error,          \* a reducer or initialiser call threw
    timerId,        \* the interval of line 163 is running
    keydownListener,\* the listener of line 164 is registered
    keyupListener,  \* the listener of line 165 is registered
    \* ---- history
    last,           \* the last action dispatched and its simulation-step call
    spaceUps,       \* parity of the space KEY_UPs dispatched since initialisation
    elapsed,        \* since initialisation: its time, the pauses completed, the deltas simulated
    heldKey,        \* the movement key pressed last, until it is released
    \* ---- vector.js
    heap,           \* the Vector objects allocated so far, by object id
    call            \* the last Vector method call: receiver, argument, result

sceneVars == <<level, game, containerSize, unitOnScreen, time, stopTime, movement>>
worldVars == <<stored, now, phase, error, timerId, keydownListener, keyupListener>>
histVars  == <<last, spaceUps, elapsed, heldKey>>
vecVars   == <<heap, call>>
vars == <<level, game, containerSize, unitOnScreen, time, stopTime, movement,
          stored, now, phase, error, timerId, keydownListener, keyupListener,
          last, spaceUps, elapsed, heldKey, heap, call>>

-----------------------------------------------------------------------------
(* Bounds of the model *)

\* Number of entries of LEVELS.
NumLevels == 2
\* The starting count of lives the level loader installs.
StartLives == 2
\* Date.now() ranges over FirstClock..MaxClock.
MaxClock == 5
\* Vector components of the inputs range over -MaxCoord..MaxCoord.
MaxCoord == 1
\* Number of Vector method calls in one behaviour.
MaxOps == 1

-----------------------------------------------------------------------------
(* JavaScript numbers.  A finite value is the exact rational n/d in lowest *)
(* terms (d > 0) with its sign s; the sign of a zero is the IEEE-754 sign  *)
(* of zero (1 for +0, -1 for -0).  A finite result that the code rounds    *)
(* (Math.cos and Math.sin off their exact values, and what is computed     *)
(* from them) is an approximation "apx": a double within rounding of n/d   *)
(* whose digits are not modelled; with n = 0 it is a tiny number of sign   *)
(* s.  A sign s = 0 is one the model does not determine.  NaN and the two  *)
(* infinities follow IEEE-754.                                             *)

Abs(i) == IF i < 0 THEN -i ELSE i

Sign(i) == IF i < 0 THEN -1 ELSE IF i > 0 THEN 1 ELSE 0

RECURSIVE Gcd(_, _)
Gcd(a, b) == IF b = 0 THEN a ELSE Gcd(b, a % b)

NaN == [k |-> "nan", n |-> 0, d |-> 1, s |-> 0]

Inf(s) == [k |-> "inf", n |-> s, d |-> 1, s |-> s]

\* The number of kind k at n/d; z is its sign where n/d is 0.
Real(k, n, d, z) ==
    LET g == Gcd(Abs(n), Abs(d))
        m == (Sign(d) * n) \div g
    IN  [k |-> k, n |-> m, d |-> Abs(d) \div g, s |-> IF m # 0 THEN Sign(m) ELSE z]

\* The exact n/d; +0 where it is zero.
Fin(n, d) == Real("fin", n, d, 1)

Num(i) == Fin(i, 1)

\* An exact zero of sign z.
Zero(z) == Real("fin", 0, 1, z)

\* A double within rounding of n/d; of sign z where n/d is 0.
Apx(n, d, z) == Real("apx", n, d, z)

\* Number.isFinite(a)
IsFinite(a) == a.k \in {"fin", "apx"}

\* a is a value the model knows exactly.
IsExact(a) == a.k = "fin"

IsInt(a) == a.k = "fin" /\ a.d = 1

\* a is +0 or -0.
IsZero(a) == a.k = "fin" /\ a.n = 0

SignOf(a) == a.s

\* a === b on exact and infinite numbers: +0 and -0 are equal.
Same(a, b) == a.k = b.k /\ a.k \in {"fin", "inf"} /\ a.n = b.n /\ a.d = b.d

\* The kind of a finite result computed from a and b.
KindOf(a, b) == IF a.k = "apx" \/ b.k = "apx" THEN "apx" ELSE "fin"

\* a * b; the sign of a zero product is the product of the signs.
Mul(a, b) ==
    CASE a.k = "nan" \/ b.k = "nan" -> NaN
      [] a.k # "nan" /\ b.k # "nan" /\ (a.k = "inf" \/ b.k = "inf")
           /\ (IsZero(a) \/ IsZero(b)) -> NaN
      [] a.k # "nan" /\ b.k # "nan" /\ (a.k = "inf" \/ b.k = "inf")
           /\ ~(IsZero(a) \/ IsZero(b)) /\ a.s * b.s # 0 -> Inf(a.s * b.s)
      [] IsFinite(a) /\ IsFinite(b) ->
           Real(IF IsZero(a) \/ IsZero(b) THEN "fin" ELSE KindOf(a, b),
                a.n * b.n, a.d * b.d, a.s * b.s)

\* The sign of a + b where n/d of the sum is 0: -0 only from (-0) + (-0),
\* a tiny number from tiny numbers of one sign.
ZeroSumSign(a, b) ==
    IF IsZero(a) /\ IsZero(b)
    THEN (IF a.s = 1 \/ b.s = 1 THEN 1 ELSE IF a.s = -1 /\ b.s = -1 THEN -1 ELSE 0)
    ELSE IF IsExact(a) /\ IsExact(b) THEN 1
    ELSE IF a.n # 0 \/ b.n # 0 THEN 0
    ELSE IF IsZero(a) THEN b.s
    ELSE IF IsZero(b) THEN a.s
    ELSE IF a.s = b.s THEN a.s ELSE 0

\* a + b
Add(a, b) ==
    IF a.k = "nan" \/ b.k = "nan" THEN NaN
    ELSE IF a.k = "inf" /\ b.k = "inf"
         THEN IF a.n = b.n THEN a ELSE NaN
         ELSE IF a.k = "inf" THEN a
         ELSE IF b.k = "inf" THEN b
         ELSE Real(KindOf(a, b), a.n * b.d + b.n * a.d, a.d * b.d, ZeroSumSign(a, b))

\* -a
Neg(a) == IF a.k = "nan" THEN NaN ELSE [a EXCEPT !.n = -a.n, !.s = -a.s]

\* a - b
Sub(a, b) == Add(a, Neg(b))

\* a / b, for a divisor that is exact or infinite; the sign of a zero or
\* infinite quotient is the product of the signs.
Div(a, b) ==
    CASE a.k = "nan" \/ b.k = "nan" -> NaN
      [] a.k # "nan" /\ b.k = "inf" ->
           IF a.k = "inf" THEN NaN ELSE Zero(a.s * b.s)
      [] a.k # "nan" /\ IsZero(b) /\ IsZero(a) -> NaN
      [] a.k # "nan" /\ IsZero(b) /\ ~IsZero(a) /\ (a.n # 0 \/ a.s # 0) ->
           Inf(a.s * b.s)
      [] a.k = "inf" /\ IsExact(b) /\ ~IsZero(b) -> Inf(a.s * b.s)
      [] IsFinite(a) /\ IsExact(b) /\ ~IsZero(b) ->
           Real(KindOf(a, b), a.n * b.d, a.d * b.n, a.s * b.s)

\* a < b on exact numbers
Less(a, b) == a.n * b.d < b.n * a.d

\* Math.min(a, b) on exact and infinite numbers; -0 is below +0.
Min(a, b) ==
    IF a.k = "nan" \/ b.k = "nan" THEN NaN
    ELSE IF a.k = "inf" THEN (IF a.n < 0 THEN a ELSE b)
    ELSE IF b.k = "inf" THEN (IF b.n < 0 THEN b ELSE a)
    ELSE IF Less(b, a) THEN b
    ELSE IF Less(a, b) THEN a
    ELSE IF b.s < a.s THEN b ELSE a

-----------------------------------------------------------------------------
(* scene.js: constants and collaborators *)

MOVEMENT_KEYS == [LEFT |-> {65, 37}, RIGHT |-> {68, 39}]

STOP_KEY == 32

\* ../game/core MOVEMENT
MOVEMENT == [LEFT |-> "LEFT", RIGHT |-> "RIGHT"]

\* The key codes the keyboard delivers: the movement keys, space, and Enter.
Keys == {65, 37, 68, 39, 32, 13}

\* The sizes the container takes.
ContainerSizes == {[width |-> 20, height |-> 20], [width |-> 40, height |-> 10]}

\* JavaScript undefined and null, for a field that otherwise holds one value.
Undefined == <<>>

Some(v) == <<v>>

\* ToBoolean of undefined/null or a number
Truthy(v) == v # Undefined /\ v[1] # 0

\* ../game/levels LEVELS: a level descriptor is its board size and its blocks;
\* id names the descriptor.
LEVELS ==
    [i \in 0..(NumLevels - 1) |->
        [id |-> i,
         size |-> [width |-> 10 + 5 * i, height |-> 10],
         blocks |-> IF i = 0 THEN 1 ELSE 2]]

\* LEVELS.length
LevelsLength == NumLevels

\* What LEVELS[i] evaluates to past the end of the array.
UndefinedLevel == [id |-> -1, size |-> [width |-> 0, height |-> 0], blocks |-> 0]

\* LEVELS[i]
LevelAt(i) == IF i \in DOMAIN LEVELS THEN LEVELS[i] ELSE UndefinedLevel

\* getGameStateFromLevel(descriptor) reads the descriptor's fields: it throws
\* on undefined.
LoaderThrows(descriptor) == descriptor = UndefinedLevel

\* ../game/core getGameStateFromLevel: a fresh game of the descriptor's board
\* and blocks with the starting lives.  from: the descriptor it was built from;
\* fresh: no simulation step has moved it yet.
getGameStateFromLevel(descriptor) ==
    [from |-> descriptor.id,
     size |-> descriptor.size,
     blocks |-> descriptor.blocks,
     lives |-> StartLives,
     fresh |-> TRUE]

\* ../game/core getNewGameState(game, movement, delta): the states one
\* simulation step can return.  Nothing moves in no time; otherwise the ball
\* moves, and may hit a block (at most one per step) or miss the paddle (a
\* life is lost, and the blocks are kept or rebuilt).
getNewGameState(g, mv, delta) ==
    IF delta <= 0 THEN {g}
    ELSE {[g EXCEPT !.fresh = FALSE]}
         \cup (IF g.blocks > 0
               THEN {[g EXCEPT !.fresh = FALSE, !.blocks = g.blocks - 1]}
               ELSE {})
         \cup {[g EXCEPT !.fresh = FALSE, !.lives = g.lives - 1, !.blocks = b] :
                 b \in {g.blocks, LevelAt(g.from).blocks}}

\* A filler for the game of a record that holds none.
NoGame == [from |-> -1, size |-> [width |-> 0, height |-> 0], blocks |-> 0,
           lives |-> 0, fresh |-> FALSE]

\* Number.prototype.toString / String(n) of a non-negative integer: its
\* decimal digits, most significant first.
Digits == <<"0", "1", "2", "3", "4", "5", "6", "7", "8", "9">>

RECURSIVE NumberToString(_)
NumberToString(n) ==
    IF n < 10 THEN <<Digits[n + 1]>>
    ELSE NumberToString(n \div 10) \o <<Digits[(n % 10) + 1]>>

DigitValue(c) == (CHOOSE i \in 1..10 : Digits[i] = c) - 1

IsDigit(c) == \E i \in 1..10 : Digits[i] = c

\* parseInt(s, 10) of a string that starts with a digit: the value of its
\* longest prefix of digits.
RECURSIVE ParseDigits(_, _)
ParseDigits(s, acc) ==
    IF s = <<>> \/ ~IsDigit(Head(s)) THEN acc
    ELSE ParseDigits(Tail(s), 10 * acc + DigitValue(Head(s)))

parseInt(s) == ParseDigits(s, 0)

\* localStorage.setItem('level', level): the value is stored as a string.
setItem(v) == NumberToString(v)

\* scene.js getInitialLevel (lines 26-29): a string is truthy unless empty.
getInitialLevel(item) == IF item # <<>> THEN parseInt(item) ELSE 0

\* scene.js getProjectors (lines 31-40): the scale of both projectors.
getProjectors(cs, gameSize) ==
    LET widthRatio == Div(Num(cs.width), Num(gameSize.width))
        heightRatio == Div(Num(cs.height), Num(gameSize.height))
    IN  Min(widthRatio, heightRatio)

\* The first value Date.now() returns.
FirstClock == 1

-----------------------------------------------------------------------------
(* scene.js: the component *)

\* A record of one dispatched action: its type and payload key, whether it
\* called the simulation step, and that call's arguments and result.
Dispatched(type, key, called, mv, delta, ret) ==
    [type |-> type, key |-> key, called |-> called,
     movement |-> mv, delta |-> delta, ret |-> ret]

NoStep(type, key) == Dispatched(type, key, FALSE, Undefined, 0, NoGame)

\* The call record before any Vector method was called.
NoCall == [op |-> "none", this |-> 0, arg |-> 0, k |-> 0, ret |-> 0, val |-> Num(0), n |-> 0]

\* useReducer(reducer, containerSize, getInitialState) (line 136) with
\* getInitialState (lines 42-59), when the loader does not throw.
getInitialState(cs) ==
    /\ level' = getInitialLevel(stored)
    /\ game' = getGameStateFromLevel(LevelAt(getInitialLevel(stored)))
    /\ containerSize' = cs
    /\ unitOnScreen' = getProjectors(cs, LevelAt(getInitialLevel(stored)).size)
    /\ time' = now
    /\ stopTime' = Undefined
    /\ movement' = Undefined

\* The state after the first render of a browser that stored nothing yet.
SceneInit ==
    /\ stored = <<>>
    /\ now = FirstClock
    /\ containerSize \in ContainerSizes
    /\ level = getInitialLevel(stored)
    /\ game = getGameStateFromLevel(LevelAt(level))
    /\ unitOnScreen = getProjectors(containerSize, game.size)
    /\ time = now
    /\ stopTime = Undefined
    /\ movement = Undefined
    /\ phase = "rendered"
    /\ error = FALSE
    /\ timerId = FALSE
    /\ keydownListener = FALSE
    /\ keyupListener = FALSE
    /\ last = NoStep("INIT", 0)
    /\ spaceUps = 0
    /\ elapsed = [start |-> now, paused |-> 0, simulated |-> 0]
    /\ heldKey = Undefined

\* A cleanup that forgets the keyup listener.
CleanupLeavesKeyup ==
    /\ timerId' = FALSE
    /\ keydownListener' = FALSE
    /\ keyupListener' = keyupListener

\* The function the mount effect returns (lines 166-170).
Cleanup ==
    /\ timerId' = FALSE
    /\ keydownListener' = FALSE
    /\ keyupListener' = FALSE

\* An exception leaves the reducer: the state is not replaced, the component
\* is torn down and its effects are cleaned up.
Throw ==
    /\ error' = TRUE
    /\ phase' = "unmounted"
    /\ Cleanup
    /\ UNCHANGED sceneVars

\* A handler that also drops the movement intent.
HandleContainerSizeChangeStops(cs) ==
    /\ containerSize' = cs
    /\ unitOnScreen' = getProjectors(cs, game.size)
    /\ movement' = Undefined
    /\ UNCHANGED <<level, game, time, stopTime>>

\* HANDLER[CONTAINER_SIZE_CHANGE] (lines 72-76)
HandleContainerSizeChange(cs) ==
    /\ containerSize' = cs
    /\ unitOnScreen' = getProjectors(cs, game.size)
    /\ UNCHANGED <<level, game, time, stopTime, movement>>

\* The effects of the first commit (lines 155-165): the container size is
\* dispatched, the timer started and both listeners registered.
Mount ==
    /\ phase = "rendered"
    /\ phase' = "mounted"
    /\ HandleContainerSizeChange(containerSize)
    /\ timerId' = TRUE
    /\ keydownListener' = TRUE
    /\ keyupListener' = TRUE
    /\ last' = NoStep("CONTAINER_SIZE_CHANGE", 0)
    /\ UNCHANGED <<stored, now, error, spaceUps, elapsed, heldKey, heap, call>>

\* The container size effect (line 155): it runs whenever the parent passes a
\* new containerSize object, one of the size the scene already has included.
ContainerSizeChange ==
    /\ phase = "mounted"
    /\ \E cs \in ContainerSizes : HandleContainerSizeChange(cs)
    /\ last' = NoStep("CONTAINER_SIZE_CHANGE", 0)
    /\ UNCHANGED <<worldVars, spaceUps, elapsed, heldKey, heap, call>>

\* HANDLER[KEY_DOWN] (lines 78-85), dispatched by onKeyDown (line 159)
KeyDown ==
    /\ keydownListener
    /\ \E key \in Keys :
        /\ movement' = IF key \in MOVEMENT_KEYS.LEFT THEN Some(MOVEMENT.LEFT)
                       ELSE IF key \in MOVEMENT_KEYS.RIGHT THEN Some(MOVEMENT.RIGHT)
                       ELSE movement
        /\ last' = NoStep("KEY_DOWN", key)
        /\ heldKey' = IF key \in MOVEMENT_KEYS.LEFT \cup MOVEMENT_KEYS.RIGHT
                      THEN Some(key) ELSE heldKey
    /\ UNCHANGED <<level, game, containerSize, unitOnScreen, time, stopTime>>
    /\ UNCHANGED <<worldVars, spaceUps, elapsed, heap, call>>

\* Enter taken for a pause key as well.
IsStopKeyOrEnter(key) == key \in {STOP_KEY, 13}

\* key === STOP_KEY (line 89)
IsStopKey(key) == key = STOP_KEY

\* A resume that forgets to take the pause out of the clock.
ResumedTimeUnshifted(t, n, st) == t

\* A resume that adds the clock but does not subtract the pause's start.
ResumedTimeNoStop(t, n, st) == t + n

\* state.time + Date.now() - state.stopTime (line 91)
ResumedTime(t, n, st) == t + n - st

\* HANDLER[KEY_UP] (lines 87-97), dispatched by onKeyUp (line 160)
KeyUp ==
    /\ keyupListener
    /\ \E key \in Keys :
        /\ movement' = Undefined
        /\ IF IsStopKey(key)
           THEN IF Truthy(stopTime)
                THEN /\ stopTime' = Undefined
                     /\ time' = ResumedTime(time, now, stopTime[1])
                ELSE /\ stopTime' = Some(now)
                     /\ time' = time
           ELSE UNCHANGED <<stopTime, time>>
        /\ spaceUps' = IF key = STOP_KEY THEN 1 - spaceUps ELSE spaceUps
        /\ last' = NoStep("KEY_UP", key)
        /\ elapsed' = IF key = STOP_KEY /\ Truthy(stopTime)
                      THEN [elapsed EXCEPT !.paused = @ + (now - stopTime[1])]
                      ELSE elapsed
        /\ heldKey' = IF heldKey = Some(key) THEN Undefined ELSE heldKey
    /\ UNCHANGED <<level, game, containerSize, unitOnScreen>>
    /\ UNCHANGED <<worldVars, heap, call>>

\* The pause guard dropped: every TICK runs the simulation step.
TickPausedIgnored(st) == FALSE

\* if (state.stopTime) return state (line 101)
TickPaused(st) == Truthy(st)

\* The level index a cleared level leads to (line 109).
NextLevel(lv) == IF lv = LevelsLength THEN lv ELSE lv + 1

\* The level index whose descriptor builds the game after a clear (line 111).
ClearedGameLevel(lv) == lv

\* A check that lets a game with no life left through.
LivesExhaustedBelowZero(g) == g.lives < 0

\* newGame.lives < 1 (line 106)
LivesExhausted(g) == g.lives < 1

\* HANDLER[TICK] (lines 100-120), dispatched by the interval (lines 161-163)
Tick ==
    /\ timerId
    /\ IF TickPaused(stopTime)
       THEN /\ last' = NoStep("TICK", 0)
            /\ UNCHANGED <<sceneVars, worldVars, elapsed>>
       ELSE \E newGame \in getNewGameState(game, movement, now - time) :
            /\ last' = Dispatched("TICK", 0, TRUE, movement, now - time, newGame)
            /\ elapsed' = [elapsed EXCEPT !.simulated = @ + (now - time)]
            /\ IF LivesExhausted(newGame)
               THEN IF LoaderThrows(LevelAt(level))
                    THEN Throw /\ UNCHANGED <<stored, now>>
                    ELSE /\ game' = getGameStateFromLevel(LevelAt(level))
                         /\ time' = now
                         /\ UNCHANGED <<level, containerSize, unitOnScreen,
                                        stopTime, movement, worldVars>>
               ELSE IF newGame.blocks < 1
               THEN /\ stored' = setItem(NextLevel(level))
                    /\ IF LoaderThrows(LevelAt(ClearedGameLevel(level)))
                       THEN Throw /\ UNCHANGED now
                       ELSE /\ level' = NextLevel(level)
                            /\ game' = getGameStateFromLevel(LevelAt(ClearedGameLevel(level)))
                            /\ unitOnScreen' =
                                 getProjectors(containerSize,
                                               LevelAt(ClearedGameLevel(level)).size)
                            /\ time' = now
                            /\ UNCHANGED <<containerSize, stopTime, movement, now, phase,
                                           error, timerId, keydownListener, keyupListener>>
               ELSE /\ game' = newGame
                    /\ time' = now
                    /\ UNCHANGED <<level, containerSize, unitOnScreen,
                                   stopTime, movement, worldVars>>
    /\ UNCHANGED <<spaceUps, heldKey, heap, call>>

\* The component is unmounted: React runs the cleanup (lines 166-170).
Unmount ==
    /\ phase = "mounted"
    /\ phase' = "unmounted"
    /\ Cleanup
    /\ UNCHANGED <<sceneVars, stored, now, error, histVars, heap, call>>

\* The component is mounted again (the page is loaded again): line 136.
Remount ==
    /\ phase = "unmounted"
    /\ IF LoaderThrows(LevelAt(getInitialLevel(stored)))
       THEN /\ error' = TRUE
            /\ UNCHANGED <<sceneVars, phase, histVars>>
       ELSE /\ \E cs \in ContainerSizes : getInitialState(cs)
            /\ phase' = "rendered"
            /\ error' = FALSE
            /\ last' = NoStep("INIT", 0)
            /\ spaceUps' = 0
            /\ elapsed' = [start |-> now, paused |-> 0, simulated |-> 0]
            /\ heldKey' = Undefined
    /\ UNCHANGED <<stored, now, timerId, keydownListener, keyupListener, heap, call>>

\* Time passes: Date.now() never goes back.
Advance ==
    /\ now < MaxClock
    /\ now' = now + 1
    /\ UNCHANGED <<sceneVars, stored, phase, error, timerId, keydownListener,
                   keyupListener, histVars, heap, call>>

Init == SceneInit /\ heap = <<>> /\ call = NoCall

Next ==
    \/ Mount
    \/ ContainerSizeChange
    \/ KeyDown
    \/ KeyUp
    \/ Tick
    \/ Unmount
    \/ Remount
    \/ Advance

Spec == Init /\ [][Next]_vars

-----------------------------------------------------------------------------
(* vector.js: Vector objects live on a heap; a method returns the heap it  *)
(* leaves and the object id (ret) or the number (val) it returns.          *)

\* The coordinates of the input vectors.
Coords == (-MaxCoord)..MaxCoord

\* The numbers passed to scaleBy.
ScaleInputs == {-1, 0, 2}

\* The angles passed to rotate.
DegreeInputs == {0, 90, 180, 270}

IsSquare(n) == \E r \in 0..n : r * r = n

ISqrt(n) == CHOOSE r \in 0..n : r * r = n

\* Math.hypot(x, y) has an exact value in this number model.
HasHypot(x, y) ==
    /\ IsExact(x) /\ IsExact(y)
    /\ LET q == Add(Mul(x, x), Mul(y, y)) IN IsSquare(q.n) /\ IsSquare(q.d)

\* Math.hypot(x, y), where HasHypot(x, y)
Hypot(x, y) ==
    LET q == Add(Mul(x, x), Mul(y, y)) IN Fin(ISqrt(q.n), ISqrt(q.d))

\* Math.cos(toRadians(degrees)) for a multiple of 90 degrees from 0 up: 1 and
\* -1 are exact at the even multiples; at the odd ones the result is not 0
\* but a tiny number, positive at 90 and negative at 270.
CosDeg(degrees) ==
    LET q == (degrees \div 90) % 4
    IN  IF q = 0 THEN Num(1)
        ELSE IF q = 1 THEN Apx(0, 1, 1)
        ELSE IF q = 2 THEN Num(-1)
        ELSE Apx(0, 1, -1)

\* Math.sin(toRadians(degrees)) for a multiple of 90 degrees from 0 up: 0 at
\* 0, 1 and -1 are exact at the odd multiples; at the other even ones the
\* result is not 0 but a tiny number, positive at 180 and negative at 360.
SinDeg(degrees) ==
    LET q == (degrees \div 90) % 4
    IN  IF degrees = 0 THEN Num(0)
        ELSE IF q = 1 THEN Num(1)
        ELSE IF q = 2 THEN Apx(0, 1, 1)
        ELSE IF q = 3 THEN Num(-1)
        ELSE Apx(0, 1, -1)

\* toDegrees(Math.atan2(c, d)) has an exact value: c and d are integers on an
\* axis or a diagonal, and a zero among them has a sign.
HasAtan2Deg(c, d) ==
    /\ IsInt(c) /\ IsInt(d)
    /\ c.s # 0 /\ d.s # 0
    /\ (c.n = 0 \/ d.n = 0 \/ Abs(c.n) = Abs(d.n))

\* toDegrees(Math.atan2(c, d)), where HasAtan2Deg(c, d).  Math.atan2 reads
\* the sign of a zero: (+-0, d) is +-0 for d > 0 or d = +0 and +-180 for d < 0
\* or d = -0.
Atan2Deg(c, d) ==
    IF c.n = 0 THEN (IF d.s < 0 THEN Num(180 * c.s) ELSE Zero(c.s))
    ELSE IF d.n = 0 THEN Num(90 * c.s)
    ELSE IF d.n > 0 THEN Num(45 * c.s)
    ELSE Num(135 * c.s)

\* What a method hands back: the heap, the id of the Vector returned (0 if it
\* returns a number) and the number returned.
Returned(h, ret, val) == [heap |-> h, ret |-> ret, val |-> val]

\* new Vector(x, y) (lines 4-7): a new object, no other object is touched.
NewVector(h, x, y) == Returned(Append(h, [x |-> x, y |-> y]), Len(h) + 1, Num(0))

\* A scaleBy that scales the receiver in place and returns it.
scaleByInPlace(h, this, number) ==
    Returned([h EXCEPT ![this] = [x |-> Mul(h[this].x, number),
                                  y |-> Mul(h[this].y, number)]],
             this, Num(0))

\* scaleBy(number) (lines 9-11)
scaleBy(h, this, number) ==
    NewVector(h, Mul(h[this].x, number), Mul(h[this].y, number))

\* length() (lines 13-15)
length(h, this) == Returned(h, 0, Hypot(h[this].x, h[this].y))

\* add({ x, y }) (lines 17-19)
add(h, this, v) ==
    NewVector(h, Add(h[this].x, h[v].x), Add(h[this].y, h[v].y))

\* A normalize that guards the zero length and returns the zero vector.
normalizeGuarded(h, this) ==
    IF IsZero(length(h, this).val)
    THEN NewVector(h, Num(0), Num(0))
    ELSE scaleBy(h, this, Div(Num(1), length(h, this).val))

\* normalize() (lines 21-23)
normalize(h, this) == scaleBy(h, this, Div(Num(1), length(h, this).val))

\* subtract({ x, y }) (lines 26-28)
subtract(h, this, v) ==
    NewVector(h, Sub(h[this].x, h[v].x), Sub(h[this].y, h[v].y))

\* dotProduct({ x, y }) (lines 30-32)
dotProduct(h, this, v) ==
    Returned(h, 0, Add(Mul(h[this].x, h[v].x), Mul(h[this].y, h[v].y)))

\* A projectOn that projects on the receiver instead of the argument.
projectOnSelf(h, this, other) ==
    LET amt == Div(dotProduct(h, this, other).val, length(h, other).val)
    IN  NewVector(h, Mul(amt, h[this].x), Mul(amt, h[this].y))

\* projectOn(other) (lines 34-37)
projectOn(h, this, other) ==
    LET amt == Div(dotProduct(h, this, other).val, length(h, other).val)
    IN  NewVector(h, Mul(amt, h[other].x), Mul(amt, h[other].y))

\* reflect(normal) (lines 39-41)
reflect(h, this, normal) ==
    LET p == projectOn(h, this, normal)
        s == scaleBy(p.heap, p.ret, Num(2))
    IN  subtract(s.heap, this, s.ret)

\* rotate(degrees) (lines 43-52)
rotate(h, this, degrees) ==
    LET cos == CosDeg(degrees)
        sin == SinDeg(degrees)
    IN  NewVector(h, Sub(Mul(h[this].x, cos), Mul(h[this].y, sin)),
                     Add(Mul(h[this].x, sin), Mul(h[this].y, cos)))

\* A crossProduct with the sign of the second product slipped.
crossProductPlus(h, this, v) ==
    Returned(h, 0, Add(Mul(h[this].x, h[v].y), Mul(h[v].x, h[this].y)))

\* crossProduct({ x, y }) (lines 54-56)
crossProduct(h, this, v) ==
    Returned(h, 0, Sub(Mul(h[this].x, h[v].y), Mul(h[v].x, h[this].y)))

\* angleBetween(other) (lines 58-62)
angleBetween(h, this, other) ==
    Returned(h, 0, Atan2Deg(crossProduct(h, this, other).val,
                            dotProduct(h, this, other).val))

\* One method call: the heap and the call record it leaves.
Called(op, this, arg, k, r) ==
    /\ heap' = r.heap
    /\ call' = [op |-> op, this |-> this, arg |-> arg, k |-> k,
                ret |-> r.ret, val |-> r.val, n |-> call.n + 1]
    /\ UNCHANGED <<sceneVars, worldVars, histVars>>

CallScaleBy ==
    /\ call.n < MaxOps
    /\ \E this \in DOMAIN heap, k \in ScaleInputs :
         Called("scaleBy", this, 0, k, scaleBy(heap, this, Num(k)))

CallLength ==
    /\ call.n < MaxOps
    /\ \E this \in DOMAIN heap :
         /\ HasHypot(heap[this].x, heap[this].y)
         /\ Called("length", this, 0, 0, length(heap, this))

CallAdd ==
    /\ call.n < MaxOps
    /\ \E this \in DOMAIN heap, v \in DOMAIN heap :
         Called("add", this, v, 0, add(heap, this, v))

CallNormalize ==
    /\ call.n < MaxOps
    /\ \E this \in DOMAIN heap :
         /\ HasHypot(heap[this].x, heap[this].y)
         /\ Called("normalize", this, 0, 0, normalize(heap, this))

CallSubtract ==
    /\ call.n < MaxOps
    /\ \E this \in DOMAIN heap, v \in DOMAIN heap :
         Called("subtract", this, v, 0, subtract(heap, this, v))

CallDotProduct ==
    /\ call.n < MaxOps
    /\ \E this \in DOMAIN heap, v \in DOMAIN heap :
         Called("dotProduct", this, v, 0, dotProduct(heap, this, v))

CallProjectOn ==
    /\ call.n < MaxOps
    /\ \E this \in DOMAIN heap, other \in DOMAIN heap :
         /\ HasHypot(heap[other].x, heap[other].y)
         /\ Called("projectOn", this, other, 0, projectOn(heap, this, other))

CallReflect ==
    /\ call.n < MaxOps
    /\ \E this \in DOMAIN heap, normal \in DOMAIN heap :
         /\ HasHypot(heap[normal].x, heap[normal].y)
         /\ Called("reflect", this, normal, 0, reflect(heap, this, normal))

CallRotate ==
    /\ call.n < MaxOps
    /\ \E this \in DOMAIN heap, degrees \in DegreeInputs :
         Called("rotate", this, 0, degrees, rotate(heap, this, degrees))

CallCrossProduct ==
    /\ call.n < MaxOps
    /\ \E this \in DOMAIN heap, v \in DOMAIN heap :
         Called("crossProduct", this, v, 0, crossProduct(heap, this, v))

CallAngleBetween ==
    /\ call.n < MaxOps
    /\ \E this \in DOMAIN heap, other \in DOMAIN heap :
         /\ HasAtan2Deg(crossProduct(heap, this, other).val,
                        dotProduct(heap, this, other).val)
         /\ Called("angleBetween", this, other, 0, angleBetween(heap, this, other))

\* Two vectors constructed from the input coordinates; the scene stays as
\* first rendered.
VecInit ==
    /\ SceneInit
    /\ containerSize = [width |-> 20, height |-> 20]
    /\ \E vx \in Coords, vy \in Coords, wx \in Coords, wy \in Coords :
         heap = NewVector(NewVector(<<>>, Num(vx), Num(vy)).heap, Num(wx), Num(wy)).heap
    /\ call = NoCall

VecNext ==
    \/ CallScaleBy
    \/ CallLength
    \/ CallAdd
    \/ CallNormalize
    \/ CallSubtract
    \/ CallDotProduct
    \/ CallProjectOn
    \/ CallReflect
    \/ CallRotate
    \/ CallCrossProduct
    \/ CallAngleBetween

VecSpec == VecInit /\ [][VecNext]_vars

-----------------------------------------------------------------------------
(* The level lifecycle (claims C1 to C3) *)

\* A TICK step that called the simulation step.
SteppedTick == Tick /\ last'.type = "TICK" /\ last'.called

\* C1: when an un-paused TICK yields a game with no blocks left (and
\* lives >= 1) on a level that is not the final one, the level index grows
\* by exactly 1 and the game installed is the fresh initial state of the level
\* at the new index.
C1_ClearLoadsNextLevel ==
    [][(/\ SteppedTick
        /\ last'.ret.lives >= 1
        /\ last'.ret.blocks < 1
        /\ level < LevelsLength - 1)
       => (/\ level' = level + 1
           /\ game' = getGameStateFromLevel(LevelAt(level')))]_vars

\* C2: in every reachable state the level index, and the level index in
\* persistent storage, is an index of LEVELS (0..LEVELS.length-1).
C2_LevelIndexValid ==
    /\ level \in 0..(LevelsLength - 1)
    /\ stored # <<>> => parseInt(stored) \in 0..(LevelsLength - 1)

\* C3: when an un-paused TICK yields a game with lives < 1, the level index
\* and the persisted level are unchanged and the game becomes the fresh initial
\* state of the level at the current index; the exhausted game is not stored.
C3_LivesExhaustedRestartsLevel ==
    [][(SteppedTick /\ last'.ret.lives < 1)
       => (/\ level' = level
           /\ stored' = stored
           /\ ~LoaderThrows(LevelAt(level))
           /\ game' = getGameStateFromLevel(LevelAt(level))
           /\ game'.lives = StartLives)]_vars

-----------------------------------------------------------------------------
(* Pause, cleanup and persistence (claims C4 to C6 and C9) *)

\* C4: while the scene is paused (stopTime set) a TICK leaves game, level,
\* time, stopTime, movement, container size, projectors and the persisted
\* level as they were and does not call the simulation step.
C4_PausedTickChangesNothing ==
    [][(Tick /\ Truthy(stopTime))
       => (/\ UNCHANGED <<sceneVars, stored>>
           /\ ~last'.called)]_vars

\* A paused TICK happened while the clock had moved on since the last update.
C4_Witness ==
    /\ last.type = "TICK"
    /\ ~last.called
    /\ Truthy(stopTime)
    /\ now > stopTime[1]
    /\ now > time

\* C5: the scene is paused exactly when an odd number of space KEY_UPs was
\* dispatched since initialisation; no other action changes the pause status.
C5_PausedIffOddSpaceUps == Truthy(stopTime) <=> spaceUps = 1

\* The scene runs again after a second space KEY_UP.
C5_Witness ==
    /\ last.type = "KEY_UP"
    /\ last.key = STOP_KEY
    /\ spaceUps = 0
    /\ ~Truthy(stopTime)

\* C6: after unmount the timer is cleared and both listeners are
\* unregistered, and no TICK, KEY_DOWN or KEY_UP is dispatched any more.
C6_UnmountReleasesAll ==
    /\ [](phase = "unmounted" => ~timerId /\ ~keydownListener /\ ~keyupListener)
    /\ [][phase = "unmounted" => ~(Tick \/ KeyDown \/ KeyUp)]_vars

\* Unmounted, without an error, after the game had been played and paused.
C6_Witness ==
    /\ phase = "unmounted"
    /\ ~error
    /\ Truthy(stopTime)
    /\ level > 0
    /\ ~timerId /\ ~keydownListener /\ ~keyupListener

\* C9: the persisted level is absent (and the level index is the initial 0)
\* or is the string of the current level index, and every initialisation of
\* the scene again (getInitialState) yields a scene at the current level
\* index.
C9_LevelRoundTrips ==
    /\ [](/\ stored = <<>> => level = 0
          /\ stored # <<>> => stored = NumberToString(level) /\ parseInt(stored) = level)
    /\ [][Remount => (phase' = "rendered" /\ level' = level)]_vars

-----------------------------------------------------------------------------
(* Vector (claims C7, C8 and C10) *)

Vec(x, y) == [x |-> Num(x), y |-> Num(y)]

\* v and w have the same components (as === has it: +0 and -0 are equal).
SameVec(v, w) == Same(v.x, w.x) /\ Same(v.y, w.y)

IsIntVector(v) == IsInt(v.x) /\ IsInt(v.y)

\* The axis-aligned unit normals: (1,0), (-1,0), (0,1), (0,-1).
IsUnitNormal(n) == IsIntVector(n) /\ Abs(n.x.n) + Abs(n.y.n) = 1

\* v has length 0: both components are zeros.
IsZeroVector(v) == IsZero(v.x) /\ IsZero(v.y)

\* x^2 + y^2
SquaredLength(v) == Add(Mul(v.x, v.x), Mul(v.y, v.y))

\* C7: for a vector v of integer components and an axis-aligned unit normal
\* n, v.reflect(n) is v with the component along n negated and the other
\* component unchanged, so x^2 + y^2 is conserved; (1,-1).reflect((0,1)) is
\* (1,1).
C7_ReflectOnAxisNormal ==
    (/\ call.op = "reflect"
     /\ IsIntVector(heap[call.this])
     /\ IsUnitNormal(heap[call.arg]))
    => LET v == heap[call.this]
           n == heap[call.arg]
           r == heap[call.ret]
       IN  /\ Same(r.x, IF n.x.n # 0 THEN Neg(v.x) ELSE v.x)
           /\ Same(r.y, IF n.y.n # 0 THEN Neg(v.y) ELSE v.y)
           /\ Same(SquaredLength(r), SquaredLength(v))
           /\ (SameVec(v, Vec(1, -1)) /\ SameVec(n, Vec(0, 1))) => SameVec(r, Vec(1, 1))

\* (1,-1) was reflected off the normal (0,1).
C7_Witness ==
    /\ call.op = "reflect"
    /\ heap[call.this] = Vec(1, -1)
    /\ heap[call.arg] = Vec(0, 1)
    /\ heap[call.ret] = Vec(1, 1)

\* The methods that return a Vector.
VectorValued == {"scaleBy", "add", "subtract", "normalize", "projectOn", "reflect", "rotate"}

\* C8: no method call changes the x or y of an existing Vector (receiver and
\* argument included), and a Vector-valued method returns a Vector that did
\* not exist before the call.
C8_VectorsImmutable ==
    [][/\ \A o \in DOMAIN heap : o \in DOMAIN heap' /\ heap'[o] = heap[o]
       /\ call'.op \in VectorValued
            => call'.ret \in (DOMAIN heap') \ (DOMAIN heap)
       /\ call'.op \notin VectorValued => heap' = heap /\ call'.ret = 0]_vars

\* scaleBy(2) on (1,-1) returned a new object (2,-2); the receiver is still
\* (1,-1).
C8_Witness ==
    /\ call.op = "scaleBy"
    /\ call.k = 2
    /\ call.ret = Len(heap)
    /\ heap[call.this] = Vec(1, -1)
    /\ heap[call.ret] = Vec(2, -2)

\* C10 as stated: normalize() on a zero-length vector is guarded and returns
\* the zero vector, never a vector with a non-finite component.
C10_NormalizeZeroIsGuarded ==
    (call.op = "normalize" /\ IsZeroVector(heap[call.this]))
    => /\ IsFinite(heap[call.ret].x)
       /\ IsFinite(heap[call.ret].y)
       /\ IsZeroVector(heap[call.ret])

\* C10 amended: normalize() on a zero-length vector is not guarded: it
\* returns scaleBy(1/0), the non-finite vector (NaN, NaN).
C10_NormalizeZeroIsNaN ==
    (call.op = "normalize" /\ IsZeroVector(heap[call.this]))
    => heap[call.ret] = [x |-> NaN, y |-> NaN]

\* The zero vector was normalized.
C10_Witness ==
    /\ call.op = "normalize"
    /\ heap[call.this] = Vec(0, 0)
    /\ ~IsFinite(heap[call.ret].x)

-----------------------------------------------------------------------------
(* Vector (claim C11) *)

\* C11: for vectors v and w of integer components v.crossProduct(w) is
\* v.x*w.y - v.y*w.x and is the negation of w.crossProduct(v).
C11_CrossProductAntisymmetric ==
    (/\ call.op = "crossProduct"
     /\ IsIntVector(heap[call.this])
     /\ IsIntVector(heap[call.arg]))
    => LET v == heap[call.this]
           w == heap[call.arg]
       IN  /\ Same(call.val, Num(v.x.n * w.y.n - v.y.n * w.x.n))
           /\ Same(call.val, Neg(crossProduct(heap, call.arg, call.this).val))

\* (1,-1).crossProduct((0,1)) returned 1, a value that differs from its
\* negation.
C11_Witness ==
    /\ call.op = "crossProduct"
    /\ heap[call.this] = Vec(1, -1)
    /\ heap[call.arg] = Vec(0, 1)
    /\ call.val = Num(1)

-----------------------------------------------------------------------------
(* The pause clock (claims C12 and C13) *)

\* C12: at every un-paused TICK the sum of the deltas passed to the
\* simulation step so far, this one included, is the time from the scene's
\* initialisation to the TICK minus the duration of all completed pauses.
C12_PausedTimeExcluded ==
    [][SteppedTick
       => elapsed'.simulated = (now - elapsed.start) - elapsed.paused]_vars

\* A TICK simulated time after a pause that lasted had been completed.
C12_Witness ==
    /\ last.type = "TICK"
    /\ last.called
    /\ last.delta > 0
    /\ elapsed.paused > 0
    /\ elapsed.simulated > last.delta

\* C13: the stored time is never ahead of the clock, nor of stopTime while
\* paused, and no simulation step is called with a negative elapsed time.
C13_ElapsedNeverNegative ==
    /\ time <= now
    /\ Truthy(stopTime) => time <= stopTime[1] /\ stopTime[1] <= now
    /\ last.called => last.delta >= 0

\* A TICK right after a resume, the pause having started at the time of the
\* TICK before: its delta is 0.
C13_Witness ==
    /\ last.type = "TICK"
    /\ last.called
    /\ last.delta = 0
    /\ elapsed.paused > 0
    /\ elapsed.simulated > 0

-----------------------------------------------------------------------------
(* Level, projectors, movement and lives (claims C14 to C18) *)

\* C14: in every reachable state the game stored was built from the level
\* at the scene's current level index (and simulated from there).
C14_GameBelongsToLevel == game.from = level

\* C15: in every reachable state the projectors are those of the current
\* container size and the current game's board size.
C15_ProjectorsCurrent == unitOnScreen = getProjectors(containerSize, game.size)

\* C16: while a movement key is pressed and not yet released, an un-paused
\* TICK passes LEFT or RIGHT to the simulation step.
C16_HeldKeyMoves ==
    [][(SteppedTick /\ heldKey # Undefined)
       => last'.movement \in {Some(MOVEMENT.LEFT), Some(MOVEMENT.RIGHT)}]_vars

\* C17: the game stored in the scene has at least one life.
C17_StoredLivesPositive == game.lives >= 1

\* The last life was lost and the level restarted with the starting lives.
C17_Witness ==
    /\ last.type = "TICK"
    /\ last.called
    /\ last.ret.lives < 1
    /\ game.lives = StartLives
    /\ game.fresh

\* C18: CONTAINER_SIZE_CHANGE leaves game, level, time, stopTime, movement
\* and the persisted level unchanged, and installs the container size with
\* the projectors of that size.
C18_ContainerSizeChangeFrame ==
    [][(last'.type = "CONTAINER_SIZE_CHANGE" /\ (ContainerSizeChange \/ Mount))
       => (/\ UNCHANGED <<level, game, time, stopTime, movement, stored>>
           /\ unitOnScreen' = getProjectors(containerSize', game.size))]_vars

\* The container changed its size while the scene was paused with a movement
\* key down, on a level other than the first.
C18_Witness ==
    /\ last.type = "CONTAINER_SIZE_CHANGE"
    /\ Truthy(stopTime)
    /\ movement # Undefined
    /\ level > 0
    /\ phase = "mounted"

=============================================================================
